---- MODULE Spec2Model ----
(***************************************************************************)
(* Model of app.py, the PowerPoint generator: the key normalizer, the      *)
(* record resolver (find_mapping_row), the availability aggregator         *)
(* (process_stock_*_alternative), the placeholder substitution engine      *)
(* (replace_*_placeholders) and main's control flow.                       *)
(*                                                                         *)
(* Text is a sequence of one-character strings.  A spreadsheet cell is a   *)
(* record [t, s]: t is its Python type ("str", "int", "nan") and s is the  *)
(* text str() gives for it.                                                *)
(***************************************************************************)
EXTENDS Integers, Sequences, FiniteSets, TLC

VARIABLES
    pc,             \* position of the operation under way
    item_no,        \* find_mapping_row: the identifier looked up
    mapping_df,     \* the reference table: a sequence of rows
    found,          \* find_mapping_row: its outcome
    mapping_row,    \* the resolved record handed to the aggregator
    stock_df,       \* the availability table: a sequence of rows
    rts_text,       \* process_stock_rts_alternative: its result
    mto_text,       \* process_stock_mto_alternative: its result
    template_slide, \* the authoring unit: the slide as it was before the rewrite
    slide,          \* the slide the substitution engine rewrites in place
    placeholder_values, \* replace_text_placeholders: placeholder -> replacement
    hyperlink_values,   \* replace_hyperlink_placeholders: placeholder -> (label, url)
    image_values,   \* replace_image_placeholders: placeholder -> url
    bad_urls,       \* the targets for which attaching a hyperlink address raises
    web,            \* what fetch_and_process_image gets for each url
    warnings,       \* the st.warning messages, in order
    raised,         \* whether the operation ended in an exception
    session,        \* st.session_state: ppt_generated and generated_ppt
    files,          \* the uploaded file and the three files main reads
    user_df,        \* main: the "Item no" cells of the user file, in order
    prs,            \* main: the slides of the presentation, in order
    index,          \* main: the position of the loop in user_df (from 1)
    errors,         \* the st.error messages, in order
    delivered       \* what the download button of this run offers

resolverVars == <<item_no, mapping_df, found>>
stockVars == <<mapping_row, stock_df, rts_text, mto_text>>
slideVars == <<template_slide, slide, placeholder_values, hyperlink_values, image_values>>
envVars == <<bad_urls, web>>
mainVars == <<session, files, user_df, prs, index, errors, delivered>>
vars == <<pc, resolverVars, stockVars, slideVars, envVars, warnings, raised, mainVars>>

\* the value of the variables an operation on its own does not use
IdleResolver == item_no = [t |-> "nan", s |-> <<"n", "a", "n">>] /\ mapping_df = <<>>
                    /\ found = [kind |-> "none", idx |-> 0]
IdleStock == mapping_row = <<>> /\ stock_df = <<>> /\ rts_text = <<>> /\ mto_text = <<>>
IdleSlide == template_slide = <<>> /\ slide = <<>> /\ placeholder_values = <<>>
                 /\ hyperlink_values = <<>> /\ image_values = <<>>
IdleEnv == bad_urls = {} /\ web = <<>> /\ warnings = <<>>
IdleMain == session = <<>> /\ files = <<>> /\ user_df = <<>> /\ prs = <<>> /\ index = 0
                /\ errors = <<>> /\ delivered = <<>>

----------------------------------------------------------------------------
(* Bounds of the model. *)
MaxRows == 2
MaxIdLen == 3
MaxStockRows == 3
MaxRuns == 2
MaxDim == 3

----------------------------------------------------------------------------
(* Characters and cells. *)

NBSP == "NBSP"
LF == "LF"
\* what the regular expression \s matches, among the characters of the model
Whitespace == {" ", NBSP, LF, "TAB", "CR", "FF", "VT"}

UpperChars ==
    <<"A", "B", "C", "D", "E", "F", "G", "H", "I", "J", "K", "L", "M",
      "N", "O", "P", "Q", "R", "S", "T", "U", "V", "W", "X", "Y", "Z">>
LowerChars ==
    <<"a", "b", "c", "d", "e", "f", "g", "h", "i", "j", "k", "l", "m",
      "n", "o", "p", "q", "r", "s", "t", "u", "v", "w", "x", "y", "z">>

lower(c) ==
    IF \E i \in DOMAIN UpperChars : UpperChars[i] = c
    THEN LowerChars[CHOOSE i \in DOMAIN UpperChars : UpperChars[i] = c]
    ELSE c

Str(s) == [t |-> "str", s |-> s]
Num(s) == [t |-> "int", s |-> s]
NaN == [t |-> "nan", s |-> <<"n", "a", "n">>]

\* str(x)
str(x) == x.s

\* pd.isna(x)
isna(x) == x.t = "nan"

\* Python truthiness of a cell: not x
falsy(x) == (x.t = "str" /\ x.s = <<>>) \/ (x.t = "int" /\ x.s = <<"0">>)

\* re.sub(r"\s+", "", str(s).replace(NBSP, " ")).lower()
normalize_text(x) ==
    LET replaced == [i \in DOMAIN str(x) |-> IF str(x)[i] = NBSP THEN " " ELSE str(x)[i]]
        squeezed == SelectSeq(replaced, LAMBDA c : c \notin Whitespace)
    IN  [i \in DOMAIN squeezed |-> lower(squeezed[i])]

normalize_col(col) == normalize_text(col)

startswith(s, p) == Len(p) <= Len(s) /\ SubSeq(s, 1, Len(p)) = p

Contains(s, c) == \E i \in DOMAIN s : s[i] = c

\* s.split(c)[0]
SplitFirst(s, c) ==
    IF Contains(s, c)
    THEN SubSeq(s, 1, (CHOOSE i \in DOMAIN s : s[i] = c /\ \A j \in 1..(i - 1) : s[j] # c) - 1)
    ELSE s

----------------------------------------------------------------------------
(* The constants of app.py: column names and placeholders, as texts. *)

REQUIRED_MAPPING_COLS_ORIG ==
    <<<<"{", "{", "P", "r", "o", "d", "u", "c", "t", " ", "n", "a", "m", "e",
          "}", "}">>,
      <<"{", "{", "P", "r", "o", "d", "u", "c", "t", " ", "c", "o", "d", "e",
          "}", "}">>,
      <<"{", "{", "P", "r", "o", "d", "u", "c", "t", " ", "c", "o", "u", "n",
          "t", "r", "y", " ", "o", "f", " ", "o", "r", "i", "g", "i", "n", "}",
          "}">>,
      <<"{", "{", "P", "r", "o", "d", "u", "c", "t", " ", "h", "e", "i", "g",
          "h", "t", "}", "}">>,
      <<"{", "{", "P", "r", "o", "d", "u", "c", "t", " ", "w", "i", "d", "t",
          "h", "}", "}">>,
      <<"{", "{", "P", "r", "o", "d", "u", "c", "t", " ", "l", "e", "n", "g",
          "t", "h", "}", "}">>,
      <<"{", "{", "P", "r", "o", "d", "u", "c", "t", " ", "d", "e", "p", "t",
          "h", "}", "}">>,
      <<"{", "{", "P", "r", "o", "d", "u", "c", "t", " ", "s", "e", "a", "t",
          " ", "h", "e", "i", "g", "h", "t", "}", "}">>,
      <<"{", "{", "P", "r", "o", "d", "u", "c", "t", " ", "d", "i", "a", "m",
          "e", "t", "e", "r", "}", "}">>,
      <<"{", "{", "C", "e", "r", "t", "i", "f", "i", "c", "a", "t", "e", "N",
          "a", "m", "e", "}", "}">>,
      <<"{", "{", "P", "r", "o", "d", "u", "c", "t", " ", "C", "o", "n", "s",
          "u", "m", "p", "t", "i", "o", "n", " ", "C", "O", "M", "}", "}">>,
      <<"{", "{", "P", "r", "o", "d", "u", "c", "t", " ", "F", "a", "c", "t",
          " ", "S", "h", "e", "e", "t", " ", "l", "i", "n", "k", "}", "}">>,
      <<"{", "{", "P", "r", "o", "d", "u", "c", "t", " ", "c", "o", "n", "f",
          "i", "g", "u", "r", "a", "t", "o", "r", " ", "l", "i", "n", "k", "}",
          "}">>,
      <<"{", "{", "P", "r", "o", "d", "u", "c", "t", " ", "P", "a", "c", "k",
          "s", "h", "o", "t", "1", "}", "}">>,
      <<"{", "{", "P", "r", "o", "d", "u", "c", "t", " ", "L", "i", "f", "e",
          "s", "t", "y", "l", "e", "1", "}", "}">>,
      <<"{", "{", "P", "r", "o", "d", "u", "c", "t", " ", "L", "i", "f", "e",
          "s", "t", "y", "l", "e", "2", "}", "}">>,
      <<"{", "{", "P", "r", "o", "d", "u", "c", "t", " ", "L", "i", "f", "e",
          "s", "t", "y", "l", "e", "3", "}", "}">>,
      <<"{", "{", "P", "r", "o", "d", "u", "c", "t", " ", "L", "i", "f", "e",
          "s", "t", "y", "l", "e", "4", "}", "}">>,
      <<"P", "r", "o", "d", "u", "c", "t", "K", "e", "y">>>>

REQUIRED_STOCK_COLS_ORIG ==
    <<<<"p", "r", "o", "d", "u", "c", "t", "k", "e", "y">>,
      <<"v", "a", "r", "i", "a", "n", "t", "n", "a", "m", "e">>,
      <<"r", "t", "s">>,
      <<"m", "t", "o">>>>

\* each entry <<placeholder, label>>, in the order of the dictionary
TEXT_PLACEHOLDERS_ORIG ==
    <<<<<<"{", "{", "P", "r", "o", "d", "u", "c", "t", " ", "n", "a", "m", "e",
            "}", "}">>,
        <<"P", "r", "o", "d", "u", "c", "t", " ", "N", "a", "m", "e", ":">>>>,
      <<<<"{", "{", "P", "r", "o", "d", "u", "c", "t", " ", "c", "o", "d", "e",
            "}", "}">>,
        <<"P", "r", "o", "d", "u", "c", "t", " ", "C", "o", "d", "e", ":">>>>,
      <<<<"{", "{", "P", "r", "o", "d", "u", "c", "t", " ", "c", "o", "u", "n",
            "t", "r", "y", " ", "o", "f", " ", "o", "r", "i", "g", "i", "n", "}",
            "}">>,
        <<"C", "o", "u", "n", "t", "r", "y", " ", "o", "f", " ", "o", "r", "i",
            "g", "i", "n", ":">>>>,
      <<<<"{", "{", "P", "r", "o", "d", "u", "c", "t", " ", "h", "e", "i", "g",
            "h", "t", "}", "}">>,
        <<"H", "e", "i", "g", "h", "t", ":">>>>,
      <<<<"{", "{", "P", "r", "o", "d", "u", "c", "t", " ", "w", "i", "d", "t",
            "h", "}", "}">>,
        <<"W", "i", "d", "t", "h", ":">>>>,
      <<<<"{", "{", "P", "r", "o", "d", "u", "c", "t", " ", "l", "e", "n", "g",
            "t", "h", "}", "}">>,
        <<"L", "e", "n", "g", "t", "h", ":">>>>,
      <<<<"{", "{", "P", "r", "o", "d", "u", "c", "t", " ", "d", "e", "p", "t",
            "h", "}", "}">>,
        <<"D", "e", "p", "t", "h", ":">>>>,
      <<<<"{", "{", "P", "r", "o", "d", "u", "c", "t", " ", "s", "e", "a", "t",
            " ", "h", "e", "i", "g", "h", "t", "}", "}">>,
        <<"S", "e", "a", "t", " ", "H", "e", "i", "g", "h", "t", ":">>>>,
      <<<<"{", "{", "P", "r", "o", "d", "u", "c", "t", " ", "d", "i", "a", "m",
            "e", "t", "e", "r", "}", "}">>,
        <<"D", "i", "a", "m", "e", "t", "e", "r", ":">>>>,
      <<<<"{", "{", "C", "e", "r", "t", "i", "f", "i", "c", "a", "t", "e", "N",
            "a", "m", "e", "}", "}">>,
        <<"T", "e", "s", "t", " ", "&", " ", "c", "e", "r", "t", "i", "f", "i",
            "c", "a", "t", "e", "s", " ", "f", "o", "r", " ", "t", "h", "e", " ",
            "p", "r", "o", "d", "u", "c", "t", ":">>>>,
      <<<<"{", "{", "P", "r", "o", "d", "u", "c", "t", " ", "C", "o", "n", "s",
            "u", "m", "p", "t", "i", "o", "n", " ", "C", "O", "M", "}", "}">>,
        <<"C", "o", "n", "s", "u", "m", "p", "t", "i", "o", "n", " ", "i", "n",
            "f", "o", "r", "m", "a", "t", "i", "o", "n", " ", "f", "o", "r", " ",
            "C", "O", "M", ":">>>>>>

HYPERLINK_PLACEHOLDERS_ORIG ==
    <<<<<<"{", "{", "P", "r", "o", "d", "u", "c", "t", " ", "F", "a", "c", "t",
            " ", "S", "h", "e", "e", "t", " ", "l", "i", "n", "k", "}", "}">>,
        <<"D", "o", "w", "n", "l", "o", "a", "d", " ", "P", "r", "o", "d", "u",
            "c", "t", " ", "F", "a", "c", "t", " ", "S", "h", "e", "e", "t">>>>,
      <<<<"{", "{", "P", "r", "o", "d", "u", "c", "t", " ", "c", "o", "n", "f",
            "i", "g", "u", "r", "a", "t", "o", "r", " ", "l", "i", "n", "k", "}",
            "}">>,
        <<"C", "l", "i", "c", "k", " ", "t", "o", " ", "c", "o", "n", "f", "i",
            "g", "u", "r", "e", " ", "p", "r", "o", "d", "u", "c", "t">>>>>>

IMAGE_PLACEHOLDERS_ORIG ==
    <<<<"{", "{", "P", "r", "o", "d", "u", "c", "t", " ", "P", "a", "c", "k", "s", "h", "o", "t", "1", "}", "}">>,
      <<"{", "{", "P", "r", "o", "d", "u", "c", "t", " ", "L", "i", "f", "e", "s", "t", "y", "l", "e", "1", "}", "}">>,
      <<"{", "{", "P", "r", "o", "d", "u", "c", "t", " ", "L", "i", "f", "e", "s", "t", "y", "l", "e", "2", "}", "}">>,
      <<"{", "{", "P", "r", "o", "d", "u", "c", "t", " ", "L", "i", "f", "e", "s", "t", "y", "l", "e", "3", "}", "}">>,
      <<"{", "{", "P", "r", "o", "d", "u", "c", "t", " ", "L", "i", "f", "e", "s", "t", "y", "l", "e", "4", "}", "}">>>>

PRODUCT_RTS == <<"{", "{", "P", "r", "o", "d", "u", "c", "t", " ", "R", "T", "S", "}", "}">>
PRODUCT_MTO == <<"{", "{", "P", "r", "o", "d", "u", "c", "t", " ", "M", "T", "O", "}", "}">>
RTS_LABEL ==
    <<"P", "r", "o", "d", "u", "c", "t", " ", "i", "n", " ", "s", "t", "o", "c",
      "k", " ", "v", "e", "r", "s", "i", "o", "n", "s", ":">>
MTO_LABEL ==
    <<"A", "v", "i", "l", "a", "b", "l", "e", " ", "f", "o", "r", " ", "m", "a",
      "d", "e", " ", "t", "o", " ", "o", "r", "d", "e", "r", ":">>

\* MAPPING_PRODUCT_CODE_KEY = normalize_col("{{Product code}}")
MAPPING_PRODUCT_CODE_KEY == normalize_col(Str(REQUIRED_MAPPING_COLS_ORIG[2]))
PRODUCTKEY == REQUIRED_STOCK_COLS_ORIG[1]

\* row.get(col, default): a row maps the names of its columns to its cells
Get(row, col, default) == IF col \in DOMAIN row THEN row[col] ELSE default

----------------------------------------------------------------------------
(* find_mapping_row: the outcome is a row index, None, or an exception. *)

None == [kind |-> "none", idx |-> 0]
Raise == [kind |-> "raise", idx |-> 0]
Row(i) == [kind |-> "row", idx |-> i]

FirstIdx(df, P(_)) ==
    IF \E i \in DOMAIN df : P(df[i])
    THEN Row(CHOOSE i \in DOMAIN df : P(df[i]) /\ \A j \in 1..(i - 1) : ~P(df[j]))
    ELSE None

ExactPass(item, df, mapping_prod_key) ==
    FirstIdx(df, LAMBDA row : normalize_text(Get(row, mapping_prod_key, Str(<<>>)))
                                = normalize_text(item))

PrefixPass(item, df, mapping_prod_key) ==
    LET partial == normalize_text(Str(SplitFirst(str(item), "-")))
    IN  IF item.t # "str"
        THEN Raise      \* item_no.split: only str has it
        ELSE FirstIdx(df, LAMBDA row :
                 startswith(normalize_text(Get(row, mapping_prod_key, Str(<<>>))), partial))

\* A resolver that tries the prefix pass before the exact pass.
find_mapping_row_prefix_first(item, df, mapping_prod_key) ==
    IF Contains(str(item), "-") /\ item.t = "str" /\ PrefixPass(item, df, mapping_prod_key) # None
    THEN PrefixPass(item, df, mapping_prod_key)
    ELSE ExactPass(item, df, mapping_prod_key)

find_mapping_row(item, df, mapping_prod_key) ==
    IF ExactPass(item, df, mapping_prod_key) # None
    THEN ExactPass(item, df, mapping_prod_key)
    ELSE IF Contains(str(item), "-")
         THEN PrefixPass(item, df, mapping_prod_key)
         ELSE None

----------------------------------------------------------------------------
(* process_stock_rts_alternative and process_stock_mto_alternative: the two
   functions differ in the flag column alone. *)

RECURSIVE Join(_, _)
\* sep.join(list)
Join(list, sep) ==
    IF list = <<>> THEN <<>>
    ELSE IF Len(list) = 1 THEN list[1]
    ELSE list[1] \o sep \o Join(Tail(list), sep)

RECURSIVE Unique(_)
\* list(dict.fromkeys(list)): each value once, at its first place
Unique(list) ==
    IF list = <<>> THEN <<>>
    ELSE LET front == Unique(SubSeq(list, 1, Len(list) - 1))
             last == list[Len(list)]
         IN  IF \E i \in DOMAIN front : front[i] = last THEN front ELSE Append(front, last)

\* series.notna() & (series != "")
FlagSet(cell) == ~isna(cell) /\ ~(cell.t = "str" /\ cell.s = <<>>)

VARIANTNAME == REQUIRED_STOCK_COLS_ORIG[2]
RTS == REQUIRED_STOCK_COLS_ORIG[3]
MTO == REQUIRED_STOCK_COLS_ORIG[4]

\* lambda x: normalize_text(x) == norm_product_key, on the productkey column
KeyMatches(stock_row, product_key) ==
    normalize_text(stock_row[PRODUCTKEY]) = normalize_text(product_key)

\* filtered["variantname"].dropna().astype(str).tolist()
VariantNames(rows) ==
    LET named == SelectSeq(rows, LAMBDA r : ~isna(r[VARIANTNAME]))
    IN  [i \in DOMAIN named |-> str(named[i][VARIANTNAME])]

CommaSpace == <<",", " ">>

\* An aggregator that forgets the flag filter.
process_stock_unflagged(row, df, flag) ==
    LET product_key == Get(row, PRODUCTKEY, Str(<<>>))
        filtered == SelectSeq(df, LAMBDA r : KeyMatches(r, product_key))
    IN  IF falsy(product_key) \/ isna(product_key) THEN <<>>
        ELSE Join(Unique(VariantNames(filtered)), CommaSpace)

process_stock(row, df, flag) ==
    LET product_key == Get(row, PRODUCTKEY, Str(<<>>))
        filtered == SelectSeq(df, LAMBDA r : KeyMatches(r, product_key))
        flagged == SelectSeq(filtered, LAMBDA r : FlagSet(r[flag]))
    IN  IF falsy(product_key) \/ isna(product_key) THEN <<>>
        ELSE IF filtered = <<>> THEN <<>>
        ELSE IF flagged = <<>> THEN <<>>
        ELSE Join(Unique(VariantNames(flagged)), CommaSpace)

process_stock_rts_alternative(row, df) == process_stock(row, df, RTS)
process_stock_mto_alternative(row, df) == process_stock(row, df, MTO)

----------------------------------------------------------------------------
(* The regular expressions of the substitution engine.  The pattern of a
   placeholder is \{\{\s*key\s*\}\} with key = placeholder.strip("{}").strip();
   re.sub takes the replacement as a template, in which a backslash starts an
   escape. *)

Braces == {"{", "}"}
Open == <<"{", "{">>
Close == <<"}", "}">>
Backslash == "\\"
Digits == {"0", "1", "2", "3", "4", "5", "6", "7", "8", "9"}
AsciiLetters == {UpperChars[i] : i \in DOMAIN UpperChars} \cup {LowerChars[i] : i \in DOMAIN LowerChars}
\* the escapes a replacement template knows, and the character each stands for
Escapes == [c \in {"n", "t", "r", "a", "b", "f", "v"} |->
              CASE c = "n" -> LF [] c = "t" -> "TAB" [] c = "r" -> "CR" [] c = "a" -> "BEL"
                [] c = "b" -> "BS" [] c = "f" -> "FF" [] c = "v" -> "VT"]

RECURSIVE Strip(_, _)
\* s.strip(chars)
Strip(s, chars) ==
    IF s # <<>> /\ s[1] \in chars THEN Strip(Tail(s), chars)
    ELSE IF s # <<>> /\ s[Len(s)] \in chars THEN Strip(SubSeq(s, 1, Len(s) - 1), chars)
    ELSE s

\* placeholder.strip("{}").strip()
KeyOf(placeholder) == Strip(Strip(placeholder, Braces), Whitespace)

HasAt(text, j, lit) == j + Len(lit) - 1 <= Len(text) /\ SubSeq(text, j, j + Len(lit) - 1) = lit

RECURSIVE SkipWs(_, _)
SkipWs(text, j) == IF j <= Len(text) /\ text[j] \in Whitespace THEN SkipWs(text, j + 1) ELSE j

\* Where the match of the pattern that starts at i ends (the place after its
\* last character), 0 when no match starts at i.
MatchEnd(text, i, key) ==
    IF ~HasAt(text, i, Open) THEN 0
    ELSE LET j == SkipWs(text, i + 2)
         IN  IF ~HasAt(text, j, key) THEN 0
             ELSE LET k == SkipWs(text, j + Len(key))
                  IN  IF HasAt(text, k, Close) THEN k + 2 ELSE 0

\* re.search(pattern, text)
Search(text, key) == \E i \in DOMAIN text : MatchEnd(text, i, key) > 0

RECURSIVE SubFrom(_, _, _, _)
\* text from place i on, every match replaced by repl, left to right
SubFrom(text, i, key, repl) ==
    IF i > Len(text) THEN <<>>
    ELSE IF MatchEnd(text, i, key) > 0
         THEN repl \o SubFrom(text, MatchEnd(text, i, key), key, repl)
         ELSE <<text[i]>> \o SubFrom(text, i + 1, key, repl)

ReOk(s) == [ok |-> TRUE, s |-> s]
ReError == [ok |-> FALSE, s |-> <<>>]

RECURSIVE ExpandTemplate(_)
\* The replacement template expanded: \\ is a backslash, \n and its like a
\* control character, \0 the NUL character; a backslash before another letter,
\* before a digit (a group the pattern does not have) or at the end is an
\* error; before any other character it stays.
ExpandTemplate(t) ==
    IF t = <<>> THEN ReOk(<<>>)
    ELSE IF t[1] # Backslash
         THEN LET rest == ExpandTemplate(Tail(t))
              IN  IF rest.ok THEN ReOk(<<t[1]>> \o rest.s) ELSE ReError
    ELSE IF Len(t) = 1 THEN ReError
    ELSE LET c == t[2]
             rest == ExpandTemplate(SubSeq(t, 3, Len(t)))
             head == IF c = Backslash THEN <<Backslash>>
                     ELSE IF c \in DOMAIN Escapes THEN <<Escapes[c]>>
                     ELSE IF c = "0" THEN <<"NUL">>
                     ELSE <<Backslash, c>>
         IN  IF c \in (AsciiLetters \ DOMAIN Escapes) \cup (Digits \ {"0"}) THEN ReError
             ELSE IF rest.ok THEN ReOk(head \o rest.s) ELSE ReError

\* re.sub(pattern, replacement, text)
re_sub(key, replacement, text) ==
    IF ExpandTemplate(replacement).ok
    THEN ReOk(SubFrom(text, 1, key, ExpandTemplate(replacement).s))
    ELSE ReError

----------------------------------------------------------------------------
(* Slides.  A slide is the sequence of its shapes; a shape with a text frame
   holds paragraphs, a paragraph is the sequence of its runs, and a run has a
   text and a hyperlink address (NoLink: none). *)

NoLink == <<"NoLink">>
Run(text) == [text |-> text, address |-> NoLink]
LinkedRun(text, address) == [text |-> text, address |-> address]
Shape(paragraphs, left, top, width, height) ==
    [has_text_frame |-> TRUE, paragraphs |-> paragraphs,
     left |-> left, top |-> top, width |-> width, height |-> height]
\* what slide.shapes.add_picture adds: a shape without a text frame
PictureAt(left, top, width, height) ==
    [has_text_frame |-> FALSE, paragraphs |-> <<>>,
     left |-> left, top |-> top, width |-> width, height |-> height]
TextBox(paragraphs) == Shape(paragraphs, 0, 0, 1, 1)
Picture == PictureAt(0, 0, 1, 1)

RECURSIVE Concat(_)
\* "".join(list)
Concat(list) == IF list = <<>> THEN <<>> ELSE list[1] \o Concat(Tail(list))

\* "".join([run.text for run in paragraph.runs])
FullText(paragraph) == Concat([i \in DOMAIN paragraph |-> paragraph[i].text])

RECURSIVE SubAll(_, _)
\* new_text after the loop over placeholder_values, in the order of the
\* dictionary: each substitution works on the result of the one before
SubAll(text, values) ==
    IF values = <<>> THEN ReOk(text)
    ELSE LET one == re_sub(KeyOf(values[1][1]), values[1][2], text)
         IN  IF one.ok THEN SubAll(one.s, Tail(values)) ELSE ReError

\* if paragraph.runs: every run's text is cleared, the first run takes new_text
Collapse(paragraph, new_text) ==
    [i \in DOMAIN paragraph |->
        [paragraph[i] EXCEPT !.text = IF i = 1 THEN new_text ELSE <<>>]]

\* the paragraphs replace_text_placeholders visits: those of the text frames
ParagraphsOf(sl) ==
    UNION {{<<i, j>> : j \in DOMAIN sl[i].paragraphs} :
              i \in {k \in DOMAIN sl : sl[k].has_text_frame}}

\* replace_text_placeholders(slide, placeholder_values): the slide after the
\* call and whether re.sub raised.  The template of a replacement is compiled
\* before any matching, so the first paragraph visited raises, before any run
\* is written.
replace_text_placeholders(sl, values) ==
    IF ParagraphsOf(sl) # {} /\ \E k \in DOMAIN values : ~ExpandTemplate(values[k][2]).ok
    THEN [ok |-> FALSE, slide |-> sl]
    ELSE [ok |-> TRUE,
          slide |-> [i \in DOMAIN sl |->
                       IF sl[i].has_text_frame
                       THEN [sl[i] EXCEPT !.paragraphs =
                               [j \in DOMAIN @ |-> Collapse(@[j], SubAll(FullText(@[j]), values).s)]]
                       ELSE sl[i]]]

----------------------------------------------------------------------------
(* replace_hyperlink_placeholders.  hyperlink_values is the dictionary in its
   order, each entry <<placeholder, display_text, url>>. *)

\* run.hyperlink.address = url: an empty target removes the address and a
\* target that cannot be attached raises (the address is then the old one or
\* none, as the library leaves it).
Attach(run, url, bad, cleared) ==
    IF url = <<>> THEN [run EXCEPT !.address = NoLink]
    ELSE IF url \in bad THEN [run EXCEPT !.address = IF cleared THEN NoLink ELSE @]
    ELSE [run EXCEPT !.address = url]

RECURSIVE LinkRun(_, _, _, _)
\* The loop over hyperlink_values for one run: the run after it, the
\* placeholders warned about, and whether re.sub raised.
LinkRun(run, values, bad, cleared) ==
    IF values = <<>> THEN [ok |-> TRUE, run |-> run, warned |-> <<>>]
    ELSE LET key == KeyOf(values[1][1])
             sub == re_sub(key, values[1][2], run.text)
             url == values[1][3]
             next == IF Search(run.text, key)
                     THEN Attach([run EXCEPT !.text = sub.s], url, bad, cleared)
                     ELSE run
             rest == LinkRun(next, Tail(values), bad, cleared)
         IN  IF Search(run.text, key) /\ ~sub.ok
             THEN [ok |-> FALSE, run |-> run, warned |-> <<>>]
             ELSE [rest EXCEPT !.warned =
                      (IF Search(run.text, key) /\ url # <<>> /\ url \in bad
                       THEN <<values[1][1]>> ELSE <<>>) \o @]

\* the runs replace_hyperlink_placeholders visits, in the order of the visit
RunsOf(sl) ==
    UNION {{<<ij[1], ij[2], r>> : r \in DOMAIN sl[ij[1]].paragraphs[ij[2]]} : ij \in ParagraphsOf(sl)}

RECURSIVE Flatten(_)
Flatten(lists) == IF lists = <<>> THEN <<>> ELSE lists[1] \o Flatten(Tail(lists))

replace_hyperlink_placeholders(sl, values, bad, cleared) ==
    LET linked(i, j, r) == LinkRun(sl[i].paragraphs[j][r], values, bad, cleared)
    IN  [ok |-> \A ijr \in RunsOf(sl) : linked(ijr[1], ijr[2], ijr[3]).ok,
         slide |-> [i \in DOMAIN sl |->
                      [sl[i] EXCEPT !.paragraphs =
                          [j \in DOMAIN @ |-> [r \in DOMAIN @[j] |-> linked(i, j, r).run]]]],
         warned |-> Flatten([i \in DOMAIN sl |->
                      Flatten([j \in DOMAIN sl[i].paragraphs |->
                          Flatten([r \in DOMAIN sl[i].paragraphs[j] |-> linked(i, j, r).warned])])])]

----------------------------------------------------------------------------
(* replace_image_placeholders.  image_values gives the url of each
   placeholder of IMAGE_PLACEHOLDERS_ORIG, in its order; the web gives, for a
   url, NoImage or the size of the image fetch_and_process_image returns. *)


\* what fetch_and_process_image(url) gives: an image of a size, or None after
\* a status other than 200 (silently) or after an exception (with a warning)
Img(w, h) == [ok |-> TRUE, w |-> w, h |-> h, warned |-> FALSE]
NoImage == [ok |-> FALSE, w |-> 0, h |-> 0, warned |-> FALSE]
FetchError == [ok |-> FALSE, w |-> 0, h |-> 0, warned |-> TRUE]

IsSubstring(needle, hay) == \E i \in 1..(Len(hay) + 1) : HasAt(hay, i, needle)

\* shape.text: the paragraphs' texts, a line feed between them
ShapeText(shape) ==
    Join([j \in DOMAIN shape.paragraphs |-> FullText(shape.paragraphs[j])], <<LF>>)

\* the first placeholder of IMAGE_PLACEHOLDERS_ORIG whose normalized form lies
\* in the normalized text of the shape (0: none): the loop ends at it
FirstImagePlaceholder(shape) ==
    LET hit(k) == IsSubstring(normalize_text(Str(IMAGE_PLACEHOLDERS_ORIG[k])),
                              normalize_text(Str(ShapeText(shape))))
    IN  IF \E k \in DOMAIN IMAGE_PLACEHOLDERS_ORIG : hit(k)
        THEN CHOOSE k \in DOMAIN IMAGE_PLACEHOLDERS_ORIG : hit(k) /\ \A l \in 1..(k - 1) : ~hit(l)
        ELSE 0

RECURSIVE IsPowerOfTwo(_)
IsPowerOfTwo(n) == n = 1 \/ (n > 1 /\ n % 2 = 0 /\ IsPowerOfTwo(n \div 2))

RECURSIVE Gcd(_, _)
Gcd(a, b) == IF b = 0 THEN a ELSE Gcd(b, a % b)

\* A scale that takes the larger of the two ratios.
ScaleMax(target_width, target_height, original_width, original_height) ==
    IF target_width * original_height >= target_height * original_width
    THEN <<target_width, original_width>>
    ELSE <<target_height, original_height>>

\* scale = min(target_width / original_width, target_height / original_height),
\* as the fraction <<numerator, denominator>>
Scale(target_width, target_height, original_width, original_height) ==
    IF target_width * original_height <= target_height * original_width
    THEN <<target_width, original_width>>
    ELSE <<target_height, original_height>>

\* int(original * scale) in binary floating point: the whole part of the
\* product, and where the exact product is a whole number while the scale has
\* no exact binary form, that number or the one below it (down: the product
\* was rounded to just under it).
Scaled(original, scale, down) ==
    LET exact == (original * scale[1]) \div scale[2]
        whole == (original * scale[1]) % scale[2] = 0
        binary == IsPowerOfTwo(scale[2] \div Gcd(scale[1], scale[2]))
    IN  IF whole /\ ~binary /\ down THEN exact - 1 ELSE exact

\* One shape of the loop: the shape after it, the picture added (<<>>: none)
\* and the url whose fetch warned (<<>>: none).
ImageShape(shape, urls, fetched, down) ==
    LET k == FirstImagePlaceholder(shape)
        url == urls[k]
        img == fetched[url]
        scale == Scale(shape.width, shape.height, img.w, img.h)
    IN  IF ~shape.has_text_frame \/ k = 0 \/ url = <<>>
        THEN [shape |-> shape, added |-> <<>>, warned |-> <<>>]
        ELSE IF ~img.ok
        THEN [shape |-> shape, added |-> <<>>, warned |-> IF img.warned THEN <<url>> ELSE <<>>]
        ELSE [shape |-> [shape EXCEPT !.paragraphs = <<<<>>>>],     \* shape.text = ""
              added |-> <<PictureAt(shape.left, shape.top,
                                    Scaled(img.w, scale, down[1]),
                                    Scaled(img.h, scale, down[2]))>>,
              warned |-> <<>>]

\* replace_image_placeholders(slide, image_values): the shapes rewritten in
\* place, the pictures added behind them in the order of the visit, and the
\* urls warned about
replace_image_placeholders(sl, urls, fetched, down) ==
    [slide |-> [i \in DOMAIN sl |-> ImageShape(sl[i], urls, fetched, down).shape]
                  \o Flatten([i \in DOMAIN sl |-> ImageShape(sl[i], urls, fetched, down).added]),
     warned |-> Flatten([i \in DOMAIN sl |-> ImageShape(sl[i], urls, fetched, down).warned])]

----------------------------------------------------------------------------
(* Inputs of the resolver. *)

IdChars == {"a", "B", "-"}

RECURSIVE Texts(_, _)
Texts(chars, n) ==
    IF n = 0 THEN {<<>>}
    ELSE LET shorter == Texts(chars, n - 1)
         IN  shorter \cup {Append(s, c) : s \in shorter, c \in chars}

\* Identifiers: every short text over IdChars, texts with whitespace, the
\* base-plus-variant identifier of the specification, and cells that are
\* not strings (a number, a negative number, an empty cell).
Items ==
    {Str(s) : s \in Texts(IdChars, MaxIdLen)}
        \cup {Str(<<"A", "B", "1", "2", "-", "X">>), Str(<<" ", "a", NBSP, "-", "B">>),
              Num(<<"7">>), Num(<<"-", "7">>), NaN}

Codes ==
    {Str(<<"a">>), Str(<<"a", "B">>), Str(<<"a", " ", "b">>), Str(<<"a", "-", "b">>),
     Str(<<"a", "b", "1", "2">>), Str(<<"7">>), Num(<<"7">>), Num(<<"-", "7">>), NaN}

\* a row of the reference table with its product code and product key
MappingRow(code, key) ==
    [c \in {MAPPING_PRODUCT_CODE_KEY, PRODUCTKEY} |-> IF c = PRODUCTKEY THEN key ELSE code]

RECURSIVE Tables(_, _)
Tables(rows, n) ==
    IF n = 0 THEN {<<>>}
    ELSE LET shorter == Tables(rows, n - 1)
         IN  shorter \cup {Append(t, r) : t \in shorter, r \in rows}

----------------------------------------------------------------------------
(* The resolver on its own: one lookup of one identifier in one table. *)

InitResolver ==
    /\ IdleMain
    /\ pc = "lookup"
    /\ item_no \in Items
    /\ mapping_df \in Tables({MappingRow(c, NaN) : c \in Codes}, MaxRows)
    /\ found = None
    /\ raised = FALSE
    /\ IdleStock
    /\ IdleSlide
    /\ IdleEnv

Lookup ==
    /\ pc = "lookup"
    /\ found' = find_mapping_row(item_no, mapping_df, MAPPING_PRODUCT_CODE_KEY)
    /\ pc' = "looked_up"
    /\ UNCHANGED <<item_no, mapping_df, stockVars, slideVars, envVars, warnings, raised, mainVars>>

NextResolver == Lookup

SpecResolver == InitResolver /\ [][NextResolver]_vars

----------------------------------------------------------------------------
(* What the specification says of the resolver, stated on the table. *)

CodeOf(row) == row[MAPPING_PRODUCT_CODE_KEY]
IsExact(i) == normalize_text(CodeOf(mapping_df[i])) = normalize_text(item_no)
HasHyphen == Contains(str(item_no), "-")
Partial == normalize_text(Str(SplitFirst(str(item_no), "-")))
IsPrefix(i) == startswith(normalize_text(CodeOf(mapping_df[i])), Partial)
NoExact == \A i \in DOMAIN mapping_df : ~IsExact(i)

\* C2: an exact match wins over a prefix match, and in each pass the first
\* matching row in table order is the one returned.
C2_ExactPrecedence ==
    pc = "looked_up" =>
        /\ \A i \in DOMAIN mapping_df :
              (IsExact(i) /\ \A j \in 1..(i - 1) : ~IsExact(j)) => found = Row(i)
        /\ (NoExact /\ found.kind = "row") =>
              /\ HasHyphen
              /\ IsPrefix(found.idx)
              /\ \A j \in 1..(found.idx - 1) : ~IsPrefix(j)

\* An exact match sits behind a row that matches the identifier's prefix,
\* and the lookup has returned the exact match.
C2_Witness ==
    /\ pc = "looked_up"
    /\ HasHyphen
    /\ \E i \in DOMAIN mapping_df :
          /\ IsExact(i)
          /\ found = Row(i)
          /\ \E j \in 1..(i - 1) : IsPrefix(j) /\ ~IsExact(j)

\* C3: with no exact match, an identifier with a hyphen resolves to the first
\* row whose code starts with the part before the hyphen, anything else is
\* "not found", and no identifier makes the lookup raise.
C3_FallbackAndMiss ==
    (pc = "looked_up" /\ NoExact) =>
        /\ found # Raise
        /\ IF HasHyphen /\ \E i \in DOMAIN mapping_df : IsPrefix(i)
           THEN /\ found.kind = "row"
                /\ IsPrefix(found.idx)
                /\ \A j \in 1..(found.idx - 1) : ~IsPrefix(j)
           ELSE found = None

----------------------------------------------------------------------------
(* The aggregator on its own: one resolved record against one table. *)

Oak == <<"O", "a", "k">>
Walnut == <<"W", "a", "l">>
KeyK == <<"k", "1">>
Flag == Str(<<"x">>)

StockRow(key, name, rts, mto) ==
    [c \in {PRODUCTKEY, VARIANTNAME, RTS, MTO} |->
        IF c = PRODUCTKEY THEN key ELSE IF c = VARIANTNAME THEN name
        ELSE IF c = RTS THEN rts ELSE mto]

\* Rows of the record's key (as written, and with other case and spacing),
\* of another key and of no key; flags set, empty and null; a null name.
StockRows ==
    {StockRow(Str(KeyK), Str(Oak), Flag, NaN),
     StockRow(Str(<<" ", "K", "1">>), Str(Oak), Num(<<"1">>), Flag),
     StockRow(Str(KeyK), Str(Walnut), NaN, Flag),
     StockRow(Str(KeyK), Str(Walnut), Str(<<>>), Str(<<" ">>)),
     StockRow(Str(KeyK), Str(Walnut), Flag, Str(<<>>)),
     StockRow(Str(<<"z">>), Str(Walnut), Flag, Flag),
     StockRow(NaN, Str(Oak), Flag, Flag),
     StockRow(Str(KeyK), NaN, Flag, Flag)}

RecordKeys ==
    {Str(KeyK), Str(<<"K", NBSP, "1">>), Str(<<"q">>), Str(<<"n", "a", "n">>),
     NaN, Str(<<>>), Num(<<"0">>)}

InitStock ==
    /\ IdleMain
    /\ pc = "aggregate"
    /\ raised = FALSE
    /\ IdleResolver
    /\ IdleSlide
    /\ IdleEnv
    /\ mapping_row \in {MappingRow(NaN, k) : k \in RecordKeys}
    /\ stock_df \in Tables(StockRows, MaxStockRows)
    /\ rts_text = <<>>
    /\ mto_text = <<>>

Aggregate ==
    /\ pc = "aggregate"
    /\ rts_text' = process_stock_rts_alternative(mapping_row, stock_df)
    /\ mto_text' = process_stock_mto_alternative(mapping_row, stock_df)
    /\ pc' = "aggregated"
    /\ UNCHANGED <<resolverVars, mapping_row, stock_df, slideVars, envVars, warnings, raised, mainVars>>

NextStock == Aggregate

SpecStock == InitStock /\ [][NextStock]_vars

----------------------------------------------------------------------------
(* What the specification says of the aggregator, stated on the table. *)

\* the rows of the record's key whose flag cell is neither empty nor null
Qualifies(i, flag) ==
    /\ KeyMatches(stock_df[i], mapping_row[PRODUCTKEY])
    /\ ~isna(stock_df[i][flag])
    /\ stock_df[i][flag] # Str(<<>>)
    /\ ~isna(stock_df[i][VARIANTNAME])

NameOf(i) == str(stock_df[i][VARIANTNAME])

RECURSIVE SplitOn(_, _)
\* text.split(sep) for a text that is not empty
SplitOn(text, sep) ==
    IF \E i \in 1..(Len(text) - Len(sep) + 1) : SubSeq(text, i, i + Len(sep) - 1) = sep
    THEN LET i == CHOOSE k \in 1..(Len(text) - Len(sep) + 1) :
                      /\ SubSeq(text, k, k + Len(sep) - 1) = sep
                      /\ \A j \in 1..(k - 1) : SubSeq(text, j, j + Len(sep) - 1) # sep
         IN  <<SubSeq(text, 1, i - 1)>> \o SplitOn(SubSeq(text, i + Len(sep), Len(text)), sep)
    ELSE <<text>>

\* the text lists exactly the names of the qualifying rows, each once, in the
\* order in which the table first shows them, joined by ", "
ListsQualifying(text, flag) ==
    LET names == IF text = <<>> THEN <<>> ELSE SplitOn(text, CommaSpace)
        first(n) == CHOOSE i \in DOMAIN stock_df :
                        /\ Qualifies(i, flag) /\ NameOf(i) = n
                        /\ \A j \in 1..(i - 1) : ~(Qualifies(j, flag) /\ NameOf(j) = n)
    IN  /\ {names[k] : k \in DOMAIN names}
              = {NameOf(i) : i \in {j \in DOMAIN stock_df : Qualifies(j, flag)}}
        /\ \A a, b \in DOMAIN names : a < b =>
              /\ names[a] # names[b]
              /\ first(names[a]) < first(names[b])

KeyPresent == ~falsy(mapping_row[PRODUCTKEY]) /\ ~isna(mapping_row[PRODUCTKEY])

\* C4 as written: for every resolved record, both results list exactly the
\* variant names of the rows of the record's normalized key whose flag cell is
\* set, each once, in first-seen order, joined by ", ".
C4_AsWritten ==
    pc = "aggregated" =>
        /\ ListsQualifying(rts_text, RTS)
        /\ ListsQualifying(mto_text, MTO)

\* C4 as amended: the same for a record whose product key is neither empty,
\* null nor zero; for any other record both results are the empty text.
C4_Aggregation ==
    pc = "aggregated" =>
        IF KeyPresent
        THEN /\ ListsQualifying(rts_text, RTS)
             /\ ListsQualifying(mto_text, MTO)
        ELSE rts_text = <<>> /\ mto_text = <<>>

\* The record's key is present, a name repeats among the rows that qualify
\* for the first list, and a row of the key whose other flag is not set is
\* left out of the second list.
C4_Witness ==
    /\ pc = "aggregated"
    /\ KeyPresent
    /\ rts_text = Oak \o CommaSpace \o Walnut
    /\ \E i, j \in DOMAIN stock_df : i # j /\ Qualifies(i, RTS) /\ Qualifies(j, RTS)
                                        /\ NameOf(i) = NameOf(j)
    /\ \E i \in DOMAIN stock_df : /\ KeyMatches(stock_df[i], mapping_row[PRODUCTKEY])
                                  /\ stock_df[i][VARIANTNAME] = Str(Walnut)
                                  /\ ~FlagSet(stock_df[i][MTO])
    /\ mto_text = Oak

----------------------------------------------------------------------------
(* replace_text_placeholders on its own: one slide, one dictionary. *)

TokN == <<"{", "{", "n", "}", "}">>
TokM == <<"{", "{", "m", "}", "}">>

\* The texts of a run: pieces of a placeholder that formatting has split,
\* placeholders with and without inner spacing, text that is no placeholder.
RunTexts ==
    {<<>>, <<"{", "{", "n">>, <<"}", "}">>, <<"{">>, <<"{", "n", "}", "}">>,
     TokN, <<"{", "{", " ", " ", "n", " ", "}", "}">>, TokM,
     <<"H", "i", " ">>, <<"n">>, <<"}">>}

\* Dictionaries: a plain value, a value that holds another placeholder, a
\* placeholder written with inner spacing, values with a backslash, an
\* empty value.
Dictionaries ==
    {<< <<TokN, <<"L", ":", " ", "v">>>> >>,
     << <<TokN, <<"L", ":", LF, "v">>>>, <<TokM, <<"M", ":", " ">>>> >>,
     << <<TokN, <<"L", " ">> \o TokM>>, <<TokM, <<"w">>>> >>,
     << <<<<"{", "{", " ", "n", " ", "}", "}">>, <<"v">>>> >>,
     << <<TokN, <<"a", Backslash, "1">>>> >>,
     << <<TokN, <<"a", Backslash, Backslash, "b">>>> >>,
     << <<TokN, <<>>>> >>}

SlidesAround(paragraph) ==
    {<<TextBox(<<paragraph>>)>>,
     <<Picture, TextBox(<<<<Run(<<"H", "i", " ">>), Run(<<"n">>)>>, paragraph>>)>>}

InitText ==
    /\ IdleMain
    /\ pc = "replace_text"
    /\ raised = FALSE
    /\ IdleResolver
    /\ IdleStock
    /\ IdleEnv
    /\ hyperlink_values = <<>>
    /\ image_values = <<>>
    /\ template_slide \in UNION {SlidesAround(p) : p \in Tables({Run(t) : t \in RunTexts}, MaxRuns)}
    /\ slide = template_slide
    /\ placeholder_values \in Dictionaries

ReplaceText ==
    /\ pc = "replace_text"
    /\ slide' = replace_text_placeholders(slide, placeholder_values).slide
    /\ raised' = ~replace_text_placeholders(slide, placeholder_values).ok
    /\ pc' = "text_replaced"
    /\ UNCHANGED <<resolverVars, stockVars, template_slide, placeholder_values,
                   hyperlink_values, image_values, envVars, warnings, mainVars>>

NextText == ReplaceText

SpecText == InitText /\ [][NextText]_vars

----------------------------------------------------------------------------
(* What the specification says of text substitution, stated on the slide
   before (template_slide) and after (slide). *)

\* the placeholder of the dictionary that matches at place i of the text
TokenAt(text, i) ==
    IF \E k \in DOMAIN placeholder_values : MatchEnd(text, i, KeyOf(placeholder_values[k][1])) > 0
    THEN CHOOSE k \in DOMAIN placeholder_values :
            /\ MatchEnd(text, i, KeyOf(placeholder_values[k][1])) > 0
            /\ \A l \in 1..(k - 1) : MatchEnd(text, i, KeyOf(placeholder_values[l][1])) = 0
    ELSE 0

HasToken(text) == \E i \in DOMAIN text : TokenAt(text, i) > 0

RECURSIVE Substituted(_, _)
\* the text from place i on with each token replaced by its replacement
\* string, as it is written
Substituted(text, i) ==
    IF i > Len(text) THEN <<>>
    ELSE IF TokenAt(text, i) > 0
         THEN LET k == TokenAt(text, i)
              IN  placeholder_values[k][2]
                      \o Substituted(text, MatchEnd(text, i, KeyOf(placeholder_values[k][1])))
         ELSE <<text[i]>> \o Substituted(text, i + 1)

Before(ij) == template_slide[ij[1]].paragraphs[ij[2]]
After(ij) == slide[ij[1]].paragraphs[ij[2]]
RunTextsOf(paragraph) == [i \in DOMAIN paragraph |-> paragraph[i].text]

\* C5: a paragraph whose joined runs hold a token ends with its first run
\* holding the joined text with each token replaced by its replacement string,
\* and every other run empty, whatever the replacement string is.
C5_SplitTokenSubstituted ==
    pc = "text_replaced" =>
        \A ij \in ParagraphsOf(template_slide) :
            HasToken(FullText(Before(ij))) =>
                /\ ~raised
                /\ After(ij)[1].text = Substituted(FullText(Before(ij)), 1)
                /\ \A r \in 2..Len(After(ij)) : After(ij)[r].text = <<>>

RECURSIVE Segments(_, _, _)
\* the stretches of the text from place i on that lie outside the tokens, in
\* order (open: the stretch under way)
Segments(text, i, open) ==
    IF i > Len(text) THEN <<open>>
    ELSE IF TokenAt(text, i) > 0
         THEN <<open>> \o Segments(text, MatchEnd(text, i, KeyOf(placeholder_values[TokenAt(text, i)][1])), <<>>)
         ELSE Segments(text, i + 1, Append(open, text[i]))

RECURSIVE FoundInOrder(_, _)
\* text is segs[1], anything, segs[2], anything, ..., segs[n]
FoundInOrder(text, segs) ==
    IF Len(segs) = 1 THEN Len(segs[1]) <= Len(text)
                          /\ SubSeq(text, Len(text) - Len(segs[1]) + 1, Len(text)) = segs[1]
    ELSE \E i \in 1..(Len(text) + 1) :
            /\ HasAt(text, i, segs[1])
            /\ \A j \in 1..(i - 1) : ~HasAt(text, j, segs[1])
            /\ FoundInOrder(SubSeq(text, i + Len(segs[1]), Len(text)), Tail(segs))

OutsideTokensKept(before, after) ==
    LET segs == Segments(before, 1, <<>>)
    IN  IF Len(segs) = 1 THEN after = before
        ELSE /\ HasAt(after, 1, segs[1])
             /\ FoundInOrder(SubSeq(after, Len(segs[1]) + 1, Len(after)), Tail(segs))

\* C10: a paragraph without a token keeps the text of every one of its runs
\* (its runs are not collapsed), and in every paragraph the joined text
\* outside the tokens is unchanged.
C10_NonTokenUntouched ==
    pc = "text_replaced" =>
        \A ij \in ParagraphsOf(template_slide) :
            /\ ~HasToken(FullText(Before(ij))) => RunTextsOf(After(ij)) = RunTextsOf(Before(ij))
            /\ ~raised => OutsideTokensKept(FullText(Before(ij)), FullText(After(ij)))

\* the second half of C10 alone
C10_OutsideTokensKept ==
    pc = "text_replaced" =>
        \A ij \in ParagraphsOf(template_slide) :
            ~raised => OutsideTokensKept(FullText(Before(ij)), FullText(After(ij)))

----------------------------------------------------------------------------
(* replace_hyperlink_placeholders on its own: the runs of one paragraph. *)

TokF == <<"{", "{", "f", "}", "}">>
TokC == <<"{", "{", "c", "}", "}">>
LabelF == <<"F", "a", "c", "t", "s">>
LabelC == <<"C", "o", "n", "f">>
UrlF == <<"u", "/", "f">>
UrlC == <<"u", "/", "c">>
UrlOld == <<"u", "/", "o">>

\* Runs with one token, with a token in other text and with inner spacing,
\* with both tokens, with half a token and with none; with and without an
\* address of their own.
LinkRuns ==
    {LinkedRun(t, a) :
        t \in {TokF, TokC, <<"a", " ">> \o <<"{", "{", " ", "f", " ", "}", "}">> \o <<"!">>,
               TokF \o <<" ">> \o TokC, <<"H", "i">>, <<"{", "{", "f">>},
        a \in {NoLink, UrlOld}}

InitLink ==
    /\ IdleMain
    /\ pc = "replace_links"
    /\ raised = FALSE
    /\ IdleResolver
    /\ IdleStock
    /\ web = <<>>
    /\ warnings = <<>>
    /\ placeholder_values = <<>>
    /\ image_values = <<>>
    /\ template_slide \in {<<Picture, TextBox(<<p>>)>> : p \in Tables(LinkRuns, MaxRuns)}
    /\ slide = template_slide
    /\ hyperlink_values \in {<< <<TokF, LabelF, f>>, <<TokC, LabelC, c>> >> :
                                f \in {UrlF, <<>>}, c \in {UrlC, <<>>}}
    /\ bad_urls \in SUBSET {UrlF, UrlC}

ReplaceLinks ==
    /\ pc = "replace_links"
    /\ \E cleared \in BOOLEAN :
          LET done == replace_hyperlink_placeholders(slide, hyperlink_values, bad_urls, cleared)
          IN  /\ slide' = done.slide
              /\ warnings' = warnings \o done.warned
              /\ raised' = ~done.ok
    /\ pc' = "links_replaced"
    /\ UNCHANGED <<resolverVars, stockVars, template_slide, placeholder_values,
                   hyperlink_values, image_values, envVars, mainVars>>

NextLink == ReplaceLinks

SpecLink == InitLink /\ [][NextLink]_vars

----------------------------------------------------------------------------
(* What the specification says of hyperlink substitution. *)

RunBefore(ijr) == template_slide[ijr[1]].paragraphs[ijr[2]][ijr[3]]
RunAfter(ijr) == slide[ijr[1]].paragraphs[ijr[2]][ijr[3]]
HasLinkToken(text, k) == Search(text, KeyOf(hyperlink_values[k][1]))

RECURSIVE Labelled(_, _)
\* the text from place i on with each hyperlink token replaced by its label
Labelled(text, i) ==
    IF i > Len(text) THEN <<>>
    ELSE IF \E k \in DOMAIN hyperlink_values : MatchEnd(text, i, KeyOf(hyperlink_values[k][1])) > 0
         THEN LET k == CHOOSE l \in DOMAIN hyperlink_values :
                           MatchEnd(text, i, KeyOf(hyperlink_values[l][1])) > 0
              IN  hyperlink_values[k][2]
                      \o Labelled(text, MatchEnd(text, i, KeyOf(hyperlink_values[k][1])))
         ELSE <<text[i]>> \o Labelled(text, i + 1)

Attachable(url) == url # <<>> /\ url \notin bad_urls

\* C7: a run without a hyperlink token keeps its text and its address; a run
\* with a hyperlink token has the token replaced by its label and the token's
\* target as its address; where the target cannot be attached the text is
\* substituted all the same, a warning is reported and the other runs are
\* still processed.
C7_PerRunHyperlinks ==
    pc = "links_replaced" =>
        /\ ~raised
        /\ \A ijr \in RunsOf(template_slide) :
              /\ (\A k \in DOMAIN hyperlink_values : ~HasLinkToken(RunBefore(ijr).text, k))
                    => RunAfter(ijr) = RunBefore(ijr)
              /\ RunAfter(ijr).text = Labelled(RunBefore(ijr).text, 1)
              /\ \A k \in DOMAIN hyperlink_values :
                    HasLinkToken(RunBefore(ijr).text, k) =>
                        /\ Attachable(hyperlink_values[k][3])
                              => RunAfter(ijr).address = hyperlink_values[k][3]
                        /\ (hyperlink_values[k][3] \in bad_urls)
                              => \E w \in DOMAIN warnings : warnings[w] = hyperlink_values[k][1]

----------------------------------------------------------------------------
(* replace_image_placeholders on its own: one placeholder shape, one image. *)

UrlImg == <<"u", "/", "i">>
ImageTexts ==
    {<<<<Run(IMAGE_PLACEHOLDERS_ORIG[1])>>>>,
     <<<<Run(<<"{", "{", " ", "p", "r", "o", "d", "u", "c", "t">>),
         Run(<<" ", "P", "A", "C", "K", "S", "H", "O", "T", "1", " ", "}", "}">>)>>>>,
     <<<<Run(IMAGE_PLACEHOLDERS_ORIG[3])>>, <<Run(IMAGE_PLACEHOLDERS_ORIG[1])>>>>,
     <<<<Run(<<"H", "i">>)>>>>}

\* every small box and size, the example of the specification (800 x 400
\* into 300 x 300) and a box of one inch in EMU
Boxes == ((1..MaxDim) \X (1..MaxDim)) \cup {<<300, 300>>, <<914400, 914400>>}
Sizes == ((1..MaxDim) \X (1..MaxDim)) \cup {<<800, 400>>, <<11, 7>>}

InitImage ==
    /\ IdleMain
    /\ pc = "replace_images"
    /\ raised = FALSE
    /\ IdleResolver
    /\ IdleStock
    /\ bad_urls = {}
    /\ warnings = <<>>
    /\ placeholder_values = <<>>
    /\ hyperlink_values = <<>>
    /\ \E text \in ImageTexts, box \in Boxes :
          template_slide = <<Shape(text, 5, 7, box[1], box[2]), TextBox(<<<<Run(<<"H", "i">>)>>>>)>>
    /\ slide = template_slide
    /\ image_values \in {<<u, <<>>, UrlImg, <<>>, <<>>>> : u \in {UrlImg, <<>>}}
    /\ web \in {[u \in {UrlImg} |-> o] : o \in {Img(s[1], s[2]) : s \in Sizes} \cup {NoImage, FetchError}}

ReplaceImages ==
    /\ pc = "replace_images"
    /\ \E down \in BOOLEAN \X BOOLEAN :
          LET done == replace_image_placeholders(slide, image_values, web, down)
          IN  /\ slide' = done.slide
              /\ warnings' = warnings \o done.warned
    /\ pc' = "images_replaced"
    /\ UNCHANGED <<resolverVars, stockVars, template_slide, placeholder_values,
                   hyperlink_values, image_values, envVars, raised, mainVars>>

NextImage == ReplaceImages

SpecImage == InitImage /\ [][NextImage]_vars

----------------------------------------------------------------------------
(* What the specification says of image substitution. *)

\* the image inserted for shape i of the slide as it was (NoImage: none)
ImageFor(i) ==
    LET k == FirstImagePlaceholder(template_slide[i])
    IN  IF template_slide[i].has_text_frame /\ k > 0 /\ image_values[k] # <<>>
        THEN web[image_values[k]] ELSE NoImage

\* the place of the picture of shape i among the shapes of the slide
PictureIndex(i) ==
    Len(template_slide) + Cardinality({j \in 1..i : ImageFor(j).ok})

\* n is the whole part of original * num / den, or, where that product is a
\* whole number and num / den has no exact binary form, possibly one less
WholePart(n, original, num, den) ==
    /\ n * den <= original * num
    /\ \/ (n + 1) * den > original * num
       \/ (n + 1) * den = original * num /\ ~IsPowerOfTwo(den \div Gcd(num, den))

\* C9: an inserted picture sits at the placeholder's left and top, is no wider
\* and no higher than the placeholder, has the size (floor(w*s), floor(h*s))
\* for s the smaller of W/w and H/h (as floating point computes it), 300 x 150
\* for 800 x 400 in 300 x 300, and leaves the placeholder's text empty.
C9_AspectRatioFit ==
    pc = "images_replaced" =>
        \A i \in DOMAIN template_slide :
            ImageFor(i).ok =>
                LET box == template_slide[i]
                    img == ImageFor(i)
                    pic == slide[PictureIndex(i)]
                    widthBound == box.width * img.h <= box.height * img.w
                    num == IF widthBound THEN box.width ELSE box.height
                    den == IF widthBound THEN img.w ELSE img.h
                IN  /\ Len(slide) >= PictureIndex(i)
                    /\ ~pic.has_text_frame
                    /\ pic.left = box.left /\ pic.top = box.top
                    /\ pic.width <= box.width /\ pic.height <= box.height
                    /\ WholePart(pic.width, img.w, num, den)
                    /\ WholePart(pic.height, img.h, num, den)
                    /\ (<<box.width, box.height, img.w, img.h>> = <<300, 300, 800, 400>>)
                          => <<pic.width, pic.height>> = <<300, 150>>
                    /\ ShapeText(slide[i]) = <<>>

\* C9 as the specification words it, floor taken of the exact products: an
\* inserted picture is no wider and no higher than its placeholder and has
\* exactly the size (floor(w*s), floor(h*s)) for s the smaller of W/w and H/h.
C9_ExactFloor ==
    pc = "images_replaced" =>
        \A i \in DOMAIN template_slide :
            ImageFor(i).ok =>
                LET box == template_slide[i]
                    img == ImageFor(i)
                    pic == slide[PictureIndex(i)]
                    widthBound == box.width * img.h <= box.height * img.w
                    num == IF widthBound THEN box.width ELSE box.height
                    den == IF widthBound THEN img.w ELSE img.h
                IN  /\ pic.width <= box.width /\ pic.height <= box.height
                    /\ pic.width = (img.w * num) \div den
                    /\ pic.height = (img.h * num) \div den

\* The image of 800 x 400 has been inserted for a placeholder of 300 x 300.
C9_Witness ==
    /\ pc = "images_replaced"
    /\ ImageFor(1) = Img(800, 400)
    /\ template_slide[1].width = 300 /\ template_slide[1].height = 300
    /\ Len(slide) = Len(template_slide) + 1
    /\ <<slide[Len(slide)].width, slide[Len(slide)].height>> = <<300, 150>>
    /\ ShapeText(template_slide[1]) # <<>>
    /\ ShapeText(slide[1]) = <<>>

----------------------------------------------------------------------------
(* main.  A spreadsheet file is [readable, columns, rows]: the labels of its
   header row as cells and each row as the sequence of its cells; the
   template file is [readable, slides].  A slide of the presentation is
   [source, shapes]: source is 0 for a slide of the template file and the
   position of the item it was duplicated for otherwise. *)

NoFile == [readable |-> FALSE, columns |-> <<>>, rows |-> <<>>, uploaded |-> FALSE]
File(columns, rows) ==
    [readable |-> TRUE, columns |-> columns, rows |-> rows, uploaded |-> TRUE]
Unreadable == [readable |-> FALSE, columns |-> <<>>, rows |-> <<>>, uploaded |-> TRUE]

\* required_user_cols = {"Item no", "Product name"}
required_user_cols == {Str(<<"I", "t", "e", "m", " ", "n", "o">>), Str(<<"P", "r", "o", "d", "u", "c", "t", " ", "n", "a", "m", "e">>)}
ITEM_NO == Str(<<"I", "t", "e", "m", " ", "n", "o">>)

\* df.columns = [normalize_col(col) for col in df.columns]
Columns(file) == [k \in DOMAIN file.columns |-> normalize_col(file.columns[k])]

\* pd.read_excel: each row maps the name of a column to its cell
DataFrame(names, rows) ==
    [i \in DOMAIN rows |->
        [n \in {names[k] : k \in DOMAIN names} |->
            rows[i][CHOOSE k \in DOMAIN names : names[k] = n]]]

\* a table of main after the renaming of its columns to their normalized names
Frame(file) == DataFrame(Columns(file), file.rows)

\* A validation that finds every column present.
NoMissingCols(required, columns) == <<>>

\* [req for req in normalized_required_cols if req not in df.columns]
MissingCols(required, columns) ==
    LET normalized == [k \in DOMAIN required |-> normalize_col(Str(required[k]))]
    IN  SelectSeq(normalized, LAMBDA req : \A k \in DOMAIN columns : columns[k] # req)

\* what the download button offers and what st.session_state holds
NoDocument == [offered |-> FALSE, document |-> <<>>]
Document(presentation) == [offered |-> TRUE, document |-> presentation]
NoSession == [ppt_generated |-> FALSE, generated_ppt |-> <<>>]

Message(kind, missing, columns) == [kind |-> kind, missing |-> missing, found |-> columns]
Warning(kind, what) == [kind |-> kind, what |-> what]

\* value = mapping_row.get(norm_ph, ""); if pd.isna(value): value = ""
FieldOf(row, ph) ==
    LET value == Get(row, normalize_col(Str(ph)), Str(<<>>))
    IN  IF isna(value) THEN <<>> ELSE str(value)

\* the placeholders whose label and value share a line
SameLine == {<<"{", "{", "P", "r", "o", "d", "u", "c", "t", " ", "c", "o", "d", "e", "}", "}">>, <<"{", "{", "P", "r", "o", "d", "u", "c", "t", " ", "n", "a", "m", "e", "}", "}">>, <<"{", "{", "P", "r", "o", "d", "u", "c", "t", " ", "c", "o", "u", "n", "t", "r", "y", " ", "o", "f", " ", "o", "r", "i", "g", "i", "n", "}", "}">>}

\* placeholder_texts, in the order of its keys
PlaceholderTexts(row, stock) ==
    [k \in DOMAIN TEXT_PLACEHOLDERS_ORIG |->
        LET ph == TEXT_PLACEHOLDERS_ORIG[k][1]
            label == TEXT_PLACEHOLDERS_ORIG[k][2]
        IN  <<ph, label \o (IF ph \in SameLine THEN <<" ">> ELSE <<LF>>) \o FieldOf(row, ph)>>]
      \o << <<PRODUCT_RTS, RTS_LABEL \o <<LF>> \o process_stock_rts_alternative(row, stock)>>,
            <<PRODUCT_MTO, MTO_LABEL \o <<LF>> \o process_stock_mto_alternative(row, stock)>> >>

\* hyperlink_vals, in the order of its keys
HyperlinkVals(row) ==
    [k \in DOMAIN HYPERLINK_PLACEHOLDERS_ORIG |->
        <<HYPERLINK_PLACEHOLDERS_ORIG[k][1], HYPERLINK_PLACEHOLDERS_ORIG[k][2],
          FieldOf(row, HYPERLINK_PLACEHOLDERS_ORIG[k][1])>>]

\* image_vals, in the order of its keys
ImageVals(row) ==
    [k \in DOMAIN IMAGE_PLACEHOLDERS_ORIG |-> FieldOf(row, IMAGE_PLACEHOLDERS_ORIG[k])]

\* duplicate_slide(prs, slide): a slide with copies of the shapes is added at
\* the end of the presentation
duplicate_slide(presentation, sl, position) ==
    Append(presentation, [source |-> position, shapes |-> sl.shapes])

\* the warnings of main and of the replacements, as st.warning shows them
Warnings(kind, list) == [k \in DOMAIN list |-> Warning(kind, list[k])]

----------------------------------------------------------------------------
(* Inputs of main. *)

\* the header of a table that names every required column, some of them in
\* another case and with other spacing
MappingHeader ==
    [k \in DOMAIN REQUIRED_MAPPING_COLS_ORIG |->
        IF k = 1 THEN Str(<<"{", "{", " ", "P", "R", "O", "D", "U", "C", "T", " ", " ", "n", "a", "m", "e", " ", "}", "}">>)
        ELSE IF k = 19 THEN Str(<<"P", "r", "o", "d", "u", "c", "t", " ", "K", "e", "y">>)
        ELSE Str(REQUIRED_MAPPING_COLS_ORIG[k])]
\* a header where the height and the product key go by other names
MappingHeaderLacking ==
    [MappingHeader EXCEPT ![4] = Str(<<"H", "e", "i", "g", "h", "t">>), ![19] = Str(<<"K", "e", "y">>)]
StockHeader == <<Str(<<"P", "r", "o", "d", "u", "c", "t", "K", "e", "y">>), Str(<<"V", "a", "r", "i", "a", "n", "t", " ", "N", "a", "m", "e">>), Str(<<"R", "T", "S">>), Str(<<"M", "T", "O">>)>>
StockHeaderLacking == [StockHeader EXCEPT ![3] = Str(<<"R", "e", "a", "d", "y">>)]

\* a row of the reference table, in the order of REQUIRED_MAPPING_COLS_ORIG
Record(name, code, fact, configurator, packshot, key) ==
    <<name, code, Str(<<"D", "K">>), Num(<<"4", "5">>), NaN, NaN, NaN, NaN, NaN, NaN, NaN,
      fact, configurator, packshot, NaN, NaN, NaN, NaN, key>>

\* A complete record; a record without links, images and key; a record whose
\* name holds brace text; a record whose name holds a backslash.
MappingRows ==
    <<Record(Str(<<"C", "h", "a", "i", "r">>), Str(<<"A", "B", "1", "2">>), Str(UrlF), Str(UrlC), Str(UrlImg), Str(<<"k", "1">>)),
      Record(Str(<<"S", "o", "f", "a">>), Str(<<"C", "D">>), NaN, NaN, NaN, NaN),
      Record(Str(<<"S", "o", "{", "{", "x", "}", "}", "f", "a">>), Str(<<"E", "F">>), Str(UrlF), Str(UrlC), Str(UrlImg), Str(<<"k", "1">>)),
      Record(Str(<<"a", Backslash, "1">>), Str(<<"G", "H">>), Str(UrlF), Str(UrlC), Str(UrlImg), Str(<<"k", "1">>))>>

StockTable ==
    <<<<Str(<<"K", "1">>), Str(Oak), Str(<<"x">>), NaN>>,
      <<Str(<<"k", "1">>), Str(Walnut), NaN, Str(<<"x">>)>>,
      <<Str(<<"k", "2">>), Str(Walnut), Str(<<"x">>), Str(<<"x">>)>>>>

\* Identifiers that resolve exactly (AB12, EF, GH), by their prefix (CD-1) and
\* not at all (ZZ-9), and a numeric cell.
AB12 == Str(<<"A", "B", "1", "2">>)
CD1 == Str(<<"C", "D", "-", "1">>)
ZZ9 == Str(<<"Z", "Z", "-", "9">>)
ItemLists ==
    {<<>>, <<AB12>>, <<CD1>>, <<Str(<<"E", "F">>)>>, <<Str(<<"G", "H">>)>>, <<ZZ9>>, <<Num(<<"-", "7">>)>>,
     <<AB12, ZZ9>>, <<ZZ9, CD1>>, <<AB12, ZZ9, CD1>>, <<AB12, Num(<<"-", "7">>)>>}

UserFiles ==
    {NoFile, Unreadable, File(<<Str(<<"I", "t", "e", "m", " ", "n", "o">>)>>, <<>>)}
        \cup {File(<<Str(<<"P", "r", "o", "d", "u", "c", "t", " ", "n", "a", "m", "e">>), Str(<<"I", "t", "e", "m", " ", "n", "o">>)>>,
                   [i \in DOMAIN list |-> <<Str(<<"x">>), list[i]>>]) : list \in ItemLists}
MappingFiles ==
    {Unreadable, File(MappingHeader, MappingRows), File(MappingHeaderLacking, MappingRows)}
StockFiles ==
    {Unreadable, File(StockHeader, StockTable), File(StockHeaderLacking, StockTable)}

\* The authoring slide: the name token split over two runs, the height
\* token with inner spacing, the in-stock token, the two link tokens in runs of their own, and the box of the
\* packshot.
AuthoringSlide ==
    [source |-> 0,
     shapes |-> <<TextBox(<<<<Run(<<"{", "{", "P", "r", "o", "d", "u", "c", "t">>), Run(<<" ", "n", "a", "m", "e", "}", "}">>)>>,
                            <<Run(<<"{", "{", " ", "P", "r", "o", "d", "u", "c", "t", " ", "h", "e", "i", "g", "h", "t", " ", "}", "}">>)>>,
                            <<Run(PRODUCT_RTS)>>>>),
                  TextBox(<<<<Run(HYPERLINK_PLACEHOLDERS_ORIG[1][1])>>,
                            <<Run(HYPERLINK_PLACEHOLDERS_ORIG[2][1])>>>>),
                  Shape(<<<<Run(IMAGE_PLACEHOLDERS_ORIG[1])>>>>, 5, 7, 3, 2)>>]
TemplateFiles ==
    {[readable |-> FALSE, slides |-> <<>>], [readable |-> TRUE, slides |-> <<>>],
     [readable |-> TRUE, slides |-> <<AuthoringSlide>>]}

InitMain ==
    /\ pc = "start"
    /\ session = NoSession
    /\ files \in [user : UserFiles, mapping : MappingFiles, stock : StockFiles,
                  template : TemplateFiles]
    /\ web \in {[u \in {UrlImg} |-> o] : o \in {Img(2, 1), NoImage, FetchError}}
    /\ bad_urls \in {{}, {UrlF}}
    /\ item_no = NaN /\ found = None
    /\ mapping_df = <<>> /\ stock_df = <<>> /\ template_slide = <<>>
    /\ user_df = <<>> /\ prs = <<>> /\ index = 0
    /\ errors = <<>> /\ warnings = <<>> /\ raised = FALSE
    /\ delivered = NoDocument
    /\ mapping_row = <<>> /\ rts_text = <<>> /\ mto_text = <<>>
    /\ slide = <<>> /\ placeholder_values = <<>> /\ hyperlink_values = <<>>
    /\ image_values = <<>>

mainLocals == <<item_no, found, mapping_df, stock_df, template_slide, user_df, prs, index>>
mainIdle == <<mapping_row, rts_text, mto_text, slide, placeholder_values,
              hyperlink_values, image_values, envVars, files>>

\* main up to the validation of the user file
Start ==
    /\ pc = "start"
    /\ IF session.ppt_generated
       THEN /\ delivered' = Document(session.generated_ppt)
            /\ pc' = "returned"
            /\ UNCHANGED <<errors, user_df>>
       ELSE IF ~files.user.uploaded
       THEN /\ pc' = "returned"
            /\ UNCHANGED <<errors, user_df, delivered>>
       ELSE IF ~files.user.readable
       THEN /\ errors' = Append(errors, Message("user_read", <<>>, <<>>))
            /\ pc' = "returned"
            /\ UNCHANGED <<user_df, delivered>>
       ELSE IF ~(required_user_cols \subseteq {files.user.columns[k] : k \in DOMAIN files.user.columns})
       THEN /\ errors' = Append(errors, Message("user_columns", <<>>, files.user.columns))
            /\ pc' = "returned"
            /\ UNCHANGED <<user_df, delivered>>
       ELSE /\ user_df' = DataFrame(files.user.columns, files.user.rows)
            /\ pc' = "load_mapping"
            /\ UNCHANGED <<errors, delivered>>
    /\ UNCHANGED <<item_no, found, mapping_df, stock_df, template_slide, prs, index,
                   mainIdle, warnings, raised, session>>

\* the reference table is read and its columns are validated
LoadMapping ==
    /\ pc = "load_mapping"
    /\ IF ~files.mapping.readable
       THEN /\ errors' = Append(errors, Message("mapping_read", <<>>, <<>>))
            /\ pc' = "returned"
            /\ UNCHANGED mapping_df
       ELSE LET missing_mapping_cols ==
                    MissingCols(REQUIRED_MAPPING_COLS_ORIG, Columns(files.mapping))
            IN  /\ mapping_df' = Frame(files.mapping)
                /\ IF missing_mapping_cols # <<>>
                   THEN /\ errors' = Append(errors, Message("mapping_columns", missing_mapping_cols,
                                                            Columns(files.mapping)))
                        /\ pc' = "returned"
                   ELSE /\ pc' = "load_stock"
                        /\ UNCHANGED errors
    /\ UNCHANGED <<item_no, found, stock_df, template_slide, user_df, prs, index,
                   mainIdle, warnings, raised, session, delivered>>

\* the availability table is read and its columns are validated
LoadStock ==
    /\ pc = "load_stock"
    /\ IF ~files.stock.readable
       THEN /\ errors' = Append(errors, Message("stock_read", <<>>, <<>>))
            /\ pc' = "returned"
            /\ UNCHANGED stock_df
       ELSE LET missing_stock_cols ==
                    MissingCols(REQUIRED_STOCK_COLS_ORIG, Columns(files.stock))
            IN  /\ stock_df' = Frame(files.stock)
                /\ IF missing_stock_cols # <<>>
                   THEN /\ errors' = Append(errors, Message("stock_columns", missing_stock_cols,
                                                            Columns(files.stock)))
                        /\ pc' = "returned"
                   ELSE /\ pc' = "load_template"
                        /\ UNCHANGED errors
    /\ UNCHANGED <<item_no, found, mapping_df, template_slide, user_df, prs, index,
                   mainIdle, warnings, raised, session, delivered>>

\* the template is read, its first slide is kept as template_slide and
\* removed from the presentation
LoadTemplate ==
    /\ pc = "load_template"
    /\ IF ~files.template.readable
       THEN /\ errors' = Append(errors, Message("template_read", <<>>, <<>>))
            /\ pc' = "returned"
            /\ UNCHANGED <<prs, template_slide, index>>
       ELSE IF Len(files.template.slides) < 1
       THEN /\ errors' = Append(errors, Message("template_empty", <<>>, <<>>))
            /\ prs' = files.template.slides
            /\ pc' = "returned"
            /\ UNCHANGED <<template_slide, index>>
       ELSE /\ template_slide' = files.template.slides[1]
            /\ prs' = Tail(files.template.slides)
            /\ index' = 1
            /\ pc' = "items"
            /\ UNCHANGED errors
    /\ UNCHANGED <<item_no, found, mapping_df, stock_df, user_df,
                   mainIdle, warnings, raised, session, delivered>>

\* One turn of the loop over user_df: the slide is duplicated, the record is
\* looked up and, when there is one, the three replacements fill the slide.
ProcessItem ==
    /\ pc = "items"
    /\ index <= Len(user_df)
    /\ LET item == user_df[index][ITEM_NO]
           duplicated == duplicate_slide(prs, template_slide, index)
           row == find_mapping_row(item, mapping_df, MAPPING_PRODUCT_CODE_KEY)
       IN  /\ item_no' = item
           /\ found' = row
           /\ IF row = Raise
              THEN /\ prs' = duplicated
                   /\ raised' = TRUE
                   /\ pc' = "crashed"
                   /\ UNCHANGED <<warnings, index>>
              ELSE IF row = None
              THEN /\ prs' = duplicated
                   /\ warnings' = Append(warnings, Warning("no_match", str(item)))
                   /\ index' = index + 1
                   /\ UNCHANGED <<pc, raised>>
              ELSE LET mapping_record == mapping_df[row.idx]
                       texts == replace_text_placeholders(template_slide.shapes,
                                    PlaceholderTexts(mapping_record, stock_df))
                   IN  IF ~texts.ok
                       THEN /\ prs' = duplicated
                            /\ raised' = TRUE
                            /\ pc' = "crashed"
                            /\ UNCHANGED <<warnings, index>>
                       ELSE \E cleared \in BOOLEAN, down \in BOOLEAN \X BOOLEAN :
                              LET links == replace_hyperlink_placeholders(texts.slide,
                                               HyperlinkVals(mapping_record), bad_urls, cleared)
                                  images == replace_image_placeholders(links.slide,
                                               ImageVals(mapping_record), web, down)
                              IN  IF ~links.ok
                                  THEN /\ prs' = Append(prs, [source |-> index, shapes |-> links.slide])
                                       /\ raised' = TRUE
                                       /\ pc' = "crashed"
                                       /\ UNCHANGED <<warnings, index>>
                                  ELSE /\ prs' = Append(prs, [source |-> index, shapes |-> images.slide])
                                       /\ warnings' = warnings \o Warnings("hyperlink", links.warned)
                                                               \o Warnings("image", images.warned)
                                       /\ index' = index + 1
                                       /\ UNCHANGED <<pc, raised>>
    /\ UNCHANGED <<mapping_df, stock_df, template_slide, user_df,
                   mainIdle, errors, session, delivered>>

\* after the loop: the presentation is saved, offered for download and kept
\* in the session, unless saving raises
Save ==
    /\ pc = "items"
    /\ index > Len(user_df)
    /\ \E saved \in BOOLEAN :
          IF saved
          THEN /\ delivered' = Document(prs)
               /\ session' = [ppt_generated |-> TRUE, generated_ppt |-> prs]
               /\ pc' = "done"
               /\ UNCHANGED errors
          ELSE /\ errors' = Append(errors, Message("save", <<>>, <<>>))
               /\ pc' = "returned"
               /\ UNCHANGED <<session, delivered>>
    /\ UNCHANGED <<mainLocals, mainIdle, warnings, raised>>

\* the script runs again in the same session: its locals and its page start
\* afresh, st.session_state is kept
Rerun ==
    /\ pc \in {"returned", "done", "crashed"}
    /\ pc' = "start"
    /\ item_no' = NaN /\ found' = None
    /\ mapping_df' = <<>> /\ stock_df' = <<>> /\ template_slide' = <<>>
    /\ user_df' = <<>> /\ prs' = <<>> /\ index' = 0
    /\ errors' = <<>> /\ warnings' = <<>> /\ raised' = FALSE
    /\ delivered' = NoDocument
    /\ UNCHANGED <<mainIdle, session>>

NextMain == Start \/ LoadMapping \/ LoadStock \/ LoadTemplate \/ ProcessItem \/ Save \/ Rerun

SpecMain == InitMain /\ [][NextMain]_vars

----------------------------------------------------------------------------
(* What the specification says of main. *)

\* the item at a position of the input list resolves to a reference record
Resolves(i) ==
    find_mapping_row(user_df[i][ITEM_NO], mapping_df, MAPPING_PRODUCT_CODE_KEY).kind = "row"
ResolvedItems == SelectSeq([i \in DOMAIN user_df |-> i], Resolves)
AfterLoop == pc \in {"items", "done"} /\ index > Len(user_df)
NoMatchWarnings == {k \in DOMAIN warnings : warnings[k].kind = "no_match"}

\* C1: after main's item loop the units of the output document are exactly
\* the units of the items that find_mapping_row resolved, in input order, and
\* there is exactly one warning for each item that resolved to no record.
C1_UnitsOfResolvedItems ==
    AfterLoop =>
        /\ [k \in DOMAIN prs |-> prs[k].source] = ResolvedItems
        /\ Cardinality(NoMatchWarnings) = Len(user_df) - Len(ResolvedItems)

\* Aside of C1: the loop leaves one unit for every item, resolved or not, and
\* one warning for each item that resolved to no record.
C1_UnitOfEveryItem ==
    AfterLoop =>
        /\ [k \in DOMAIN prs |-> prs[k].source] = [i \in DOMAIN user_df |-> i]
        /\ Cardinality(NoMatchWarnings) = Len(user_df) - Len(ResolvedItems)

\* the label-plus-value string of a text placeholder for a record
LabelPlusValue(k, record) ==
    LET value == IF isna(record[normalize_col(Str(TEXT_PLACEHOLDERS_ORIG[k][1]))]) THEN <<>>
                 ELSE str(record[normalize_col(Str(TEXT_PLACEHOLDERS_ORIG[k][1]))])
    IN  TEXT_PLACEHOLDERS_ORIG[k][2]
            \o (IF k \in {1, 2, 3} THEN <<" ">> ELSE <<LF>>) \o value
\* a paragraph of the template holds the text token k and nothing else
HoldsToken(paragraph, k) ==
    MatchEnd(FullText(paragraph), 1, KeyOf(TEXT_PLACEHOLDERS_ORIG[k][1]))
        = Len(FullText(paragraph)) + 1
DoubleBrace(text) == IsSubstring(<<"{", "{">>, text) \/ IsSubstring(<<"}", "}">>, text)
OneResolvedItem == Len(user_df) = 1 /\ Resolves(1) /\ pc \in {"done", "crashed"}

\* C6: for one input item that resolves, after main's run the output document
\* holds exactly one unit, the authoring template unit is not among the
\* units, each text token of the template is replaced by its label-plus-value
\* string, and no text of the unit contains double-brace markup.
C6_OneItemEndToEnd ==
    OneResolvedItem =>
        /\ pc = "done"
        /\ delivered.offered
        /\ Len(delivered.document) = 1
        /\ \A u \in DOMAIN delivered.document : delivered.document[u].source # 0
        /\ \A ij \in ParagraphsOf(template_slide.shapes), k \in DOMAIN TEXT_PLACEHOLDERS_ORIG :
              HoldsToken(template_slide.shapes[ij[1]].paragraphs[ij[2]], k)
                  => FullText(delivered.document[1].shapes[ij[1]].paragraphs[ij[2]])
                         = LabelPlusValue(k, mapping_df[found.idx])
        /\ \A ij \in ParagraphsOf(delivered.document[1].shapes) :
              ~DoubleBrace(FullText(delivered.document[1].shapes[ij[1]].paragraphs[ij[2]]))

\* a table lacks a required column after the normalization of the names
Lacks(file, required) ==
    {normalize_text(Str(required[k])) : k \in DOMAIN required}
        \ {normalize_text(file.columns[c]) : c \in DOMAIN file.columns}
Unusable(file, required) == ~file.readable \/ Lacks(file, required) # {}
UserFileValid ==
    /\ files.user.uploaded /\ files.user.readable
    /\ required_user_cols \subseteq {files.user.columns[c] : c \in DOMAIN files.user.columns}
\* the report of a table: that it could not be read, or the columns it lacks
\* together with the columns found
Reports(message, file, required, table) ==
    IF ~file.readable THEN message.kind = table \o "_read"
    ELSE /\ message.kind = table \o "_columns"
         /\ {message.missing[k] : k \in DOMAIN message.missing} = Lacks(file, required)
         /\ message.found = [c \in DOMAIN file.columns |-> normalize_text(file.columns[c])]

\* C8: if the reference table or the availability table is unreadable or
\* lacks a required column after column-name normalization, main stops before
\* the template unit is removed and before any output unit is created, reports
\* the missing columns together with the columns found, delivers no document
\* and leaves session_state.ppt_generated false.
C8_ConfigurationFatal ==
    LET mappingUnusable == Unusable(files.mapping, REQUIRED_MAPPING_COLS_ORIG)
        stockUnusable == Unusable(files.stock, REQUIRED_STOCK_COLS_ORIG)
    IN  (mappingUnusable \/ stockUnusable) =>
            /\ pc \in {"start", "load_mapping", "load_stock", "returned"}
            /\ mappingUnusable => pc # "load_stock"
            /\ template_slide = <<>> /\ prs = <<>>
            /\ ~delivered.offered
            /\ ~session.ppt_generated
            /\ (pc = "returned" /\ UserFileValid) =>
                  /\ Len(errors) = 1
                  /\ IF mappingUnusable
                     THEN Reports(errors[1], files.mapping, REQUIRED_MAPPING_COLS_ORIG, "mapping")
                     ELSE Reports(errors[1], files.stock, REQUIRED_STOCK_COLS_ORIG, "stock")

\* main has stopped on a reference table that is readable and lacks two of
\* the required columns, and has reported them
C8_Witness ==
    /\ pc = "returned" /\ UserFileValid
    /\ files.mapping.readable
    /\ Cardinality(Lacks(files.mapping, REQUIRED_MAPPING_COLS_ORIG)) = 2
    /\ Len(errors) = 1 /\ errors[1].kind = "mapping_columns"
    /\ Len(errors[1].missing) = 2

\* Aside of C6: the claim holds for the complete record whose values hold no
\* brace text and no backslash, when its image is fetched.
C6_CompleteRecord ==
    (OneResolvedItem /\ user_df[1][ITEM_NO] = AB12 /\ web[UrlImg].ok) => C6_OneItemEndToEnd

\* Aside of C6: whatever the record, a run that ends delivers one unit, not
\* the authoring unit, with the text tokens replaced.
C6_UnitAndTokens ==
    (OneResolvedItem /\ pc = "done") =>
        /\ Len(delivered.document) = 1
        /\ delivered.document[1].source # 0
        /\ \A ij \in ParagraphsOf(template_slide.shapes), k \in DOMAIN TEXT_PLACEHOLDERS_ORIG :
              HoldsToken(template_slide.shapes[ij[1]].paragraphs[ij[2]], k)
                  => FullText(delivered.document[1].shapes[ij[1]].paragraphs[ij[2]])
                         = LabelPlusValue(k, mapping_df[found.idx])

====
